---- MODULE Spec2Model ----
(***************************************************************************)
(* Model of the meetcute-backend bootstrap and configuration scripts:      *)
(*   scripts/initDb.js      the one-shot database initialization flow      *)
(*   scripts/setup.js       the setup wizard                               *)
(*   config (in README.md)  getDbConfig / initializeDatabase of the pool   *)
(*   scripts/env-manager.js the interactive environment manager            *)
(* Text (console answers, file contents, keys, values) is modelled as      *)
(* sequences of one-character strings.                                     *)
(***************************************************************************)
EXTENDS Integers, Sequences, FiniteSets, TLC

VARIABLES
  flow,       \* per process: which entry point it runs ("init", "setup", "app")
  pc,         \* per process: position in its main()
  exitCode,   \* per process: -1 while running, else the process exit status
  handle,     \* per process: the administrative connection ("none","open","closed")
  urlForm,    \* per process: TRUE when DATABASE_URL is set
  answer,     \* per process: the operator's console answer, as typed
  log,        \* per process: the stage outcomes so far, in order
  precededBy, \* per process: whose createDatabase had returned when its own began
  dbExists,   \* server: the target database is in the catalog
  dbInit,     \* server: the target database was there before any run
  creates,    \* server: number of CREATE DATABASE statements that succeeded
  dotEnv,     \* the wizard's .env file ("absent", "old", "new")
  mpc,        \* environment manager: "idle", "start", "menu" or "exited"
  env,        \* environment manager: the in-memory map, in property order
  envFile,    \* ENV_FILE on disk: [exists, content]
  file0,      \* ENV_FILE as it was before the session
  exampleFile,\* ENV_EXAMPLE_FILE on disk: [exists, content]
  lastChoice, \* environment manager: the choice of the last menu round
  out,        \* environment manager: what the last menu round printed
  saves,      \* environment manager: number of saveEnv calls
  steps,      \* environment manager: menu rounds so far
  cfgEnv,     \* config: DATABASE_URL, NODE_ENV and the discrete DB_ variables
  cpc,        \* config: "idle", "start", "configured" or "exited"
  descriptor, \* config: what getDbConfig returned
  cfgExit,    \* config: -1 while running, else the process exit status
  dbName,     \* configuration: the name of the target database
  issued      \* server: the names that a create statement was sent for

bootVars == <<flow, pc, exitCode, handle, urlForm, answer, log, precededBy,
              dbExists, dbInit, creates, dotEnv, dbName, issued>>

menuVars == <<mpc, env, envFile, file0, exampleFile, lastChoice, out, saves,
              steps>>

cfgVars == <<cfgEnv, cpc, descriptor, cfgExit>>

vars == <<bootVars, menuVars, cfgVars>>

--------------------------------------------------------------------------
(* Bounds *)

\* longest console answer, in characters
MaxAnswerLen == 2

\* menu rounds of one environment manager session, the last one apart
MaxMenuSteps == 3

Procs == {"p1", "p2"}

\* the database name of the example configuration
DefaultDbName == <<"m", "e", "e", "t", "c", "u", "t", "e">>

Flows == {"init", "setup", "app"}

\* the characters of a console answer: the empty answer (Enter) declines
AnswerChars == {"y", "Y", " "}

SeqsUpTo(S, n) == UNION {[1..k -> S] : k \in 0..n}

Answers == SeqsUpTo(AnswerChars, MaxAnswerLen)

--------------------------------------------------------------------------
(* String helpers: String.prototype.trim and toLowerCase *)

IsSpace(c) == c = " " \/ c = "\n"

RECURSIVE TrimStart(_)
TrimStart(s) ==
  IF s = <<>> THEN <<>>
  ELSE IF IsSpace(Head(s)) THEN TrimStart(Tail(s)) ELSE s

RECURSIVE TrimEnd(_)
TrimEnd(s) ==
  IF s = <<>> THEN <<>>
  ELSE IF IsSpace(s[Len(s)]) THEN TrimEnd(SubSeq(s, 1, Len(s) - 1)) ELSE s

Trim(s) == TrimEnd(TrimStart(s))

LowerLetters == <<"a", "b", "c", "d", "e", "f", "g", "h", "i", "j", "k", "l", "m", "n", "o", "p", "q", "r", "s", "t", "u", "v", "w", "x", "y", "z">>

UpperLetters == <<"A", "B", "C", "D", "E", "F", "G", "H", "I", "J", "K", "L", "M", "N", "O", "P", "Q", "R", "S", "T", "U", "V", "W", "X", "Y", "Z">>

LowerChar(c) ==
  IF \E i \in 1..26 : UpperLetters[i] = c
  THEN LowerLetters[CHOOSE i \in 1..26 : UpperLetters[i] = c]
  ELSE c

UpperChar(c) ==
  IF \E i \in 1..26 : LowerLetters[i] = c
  THEN UpperLetters[CHOOSE i \in 1..26 : LowerLetters[i] = c]
  ELSE c

ToUpperCase(s) == [i \in DOMAIN s |-> UpperChar(s[i])]

ToLowerCase(s) == [i \in DOMAIN s |-> LowerChar(s[i])]

--------------------------------------------------------------------------
(* Process helpers *)

Has(p, ev) == \E i \in DOMAIN log[p] : log[p][i] = ev

\* position of the first occurrence of ev in p's log, 0 when absent
Idx(p, ev) ==
  IF Has(p, ev) THEN CHOOSE i \in DOMAIN log[p] :
                        log[p][i] = ev /\ \A j \in 1..(i - 1) : log[p][j] # ev
  ELSE 0

Logged(p, evs) == log' = [log EXCEPT ![p] = log[p] \o evs]

\* process.exit(code): the process ends at once; no pending finally block runs
ProcessExit(p, code) ==
  /\ pc' = [pc EXCEPT ![p] = "exited"]
  /\ exitCode' = [exitCode EXCEPT ![p] = code]

\* main() returned and nothing is pending: the process ends with status 0
NaturalExit(p) ==
  /\ pc' = [pc EXCEPT ![p] = "exited"]
  /\ exitCode' = [exitCode EXCEPT ![p] = 0]

Goto(p, where) ==
  /\ pc' = [pc EXCEPT ![p] = where]
  /\ UNCHANGED exitCode

\* whose createDatabase call has already returned
EnsureReturned(q) ==
  \/ Has(q, "check_present") \/ Has(q, "check_error")
  \/ Has(q, "create_ok") \/ Has(q, "create_dup") \/ Has(q, "create_fault")

--------------------------------------------------------------------------
(* scripts/initDb.js *)

\* main, lines 128-137: probe the server through the default database, then
\* enter createDatabase (its catalog query is sent at once)
CheckDatabaseConnection(p) ==
  /\ flow[p] = "init" /\ pc[p] = "start"
  /\ \E connected \in BOOLEAN :
       IF connected
       THEN /\ handle' = [handle EXCEPT ![p] = "open"]
            /\ Logged(p, <<"probe_ok">>)
            /\ precededBy' = [precededBy EXCEPT ![p] =
                                {q \in Procs \ {p} : EnsureReturned(q)}]
            /\ Goto(p, "ensure_check")
       ELSE /\ Logged(p, <<"probe_fail">>)
            /\ ProcessExit(p, 1)
            /\ UNCHANGED <<handle, precededBy>>
  /\ UNCHANGED <<flow, urlForm, answer, dbExists, dbInit, creates, dotEnv,
                 dbName, issued>>
  /\ UNCHANGED <<menuVars, cfgVars>>

\* the name as the template literal puts it in the create statement (line
\* 82, and README line 192): as configured, not quoted and not checked
CreateStatementName(name) == name

\* createDatabase fails: it returns false, main throws, and the catch block
\* of main calls process.exit(1) (line 163) before the finally block
EnsureFailed(p, ev) ==
  /\ Logged(p, <<ev, "failed">>)
  /\ ProcessExit(p, 1)

\* variant: an empty result also counts as present
CatalogSaysPresentAlways(rows) == rows >= 0

\* variant: a single row does not count as present
CatalogSaysPresentNever(rows) == rows > 1

\* the catalog query found rows: the database is reported as present
CatalogSaysPresent(rows) == rows > 0

\* createDatabase, lines 75-80 and 84-88: the catalog query answers
CreateDatabaseCheck(p) ==
  /\ flow[p] = "init" /\ pc[p] = "ensure_check"
  /\ \E fault \in BOOLEAN :
       IF fault
       THEN EnsureFailed(p, "check_error")
       ELSE IF CatalogSaysPresent(IF dbExists THEN 1 ELSE 0)
            THEN /\ Logged(p, <<"check_present">>)
                 /\ Goto(p, "migrate")
            ELSE /\ Logged(p, <<"check_missing">>)
                 /\ Goto(p, "ensure_create")
  /\ UNCHANGED <<flow, handle, urlForm, answer, precededBy, dbExists, dbInit,
                 creates, dotEnv,
                 dbName, issued>>
  /\ UNCHANGED <<menuVars, cfgVars>>

\* createDatabase, lines 81-83 and 89-93: the create statement answers; the
\* server refuses a database name that is already in the catalog
CreateDatabaseCreate(p) ==
  /\ flow[p] = "init" /\ pc[p] = "ensure_create"
  /\ issued' = issued \cup {CreateStatementName(dbName)}
  /\ \E fault \in BOOLEAN :
       IF fault
       THEN /\ EnsureFailed(p, "create_fault")
            /\ UNCHANGED <<dbExists, creates>>
       ELSE IF dbExists
            THEN /\ EnsureFailed(p, "create_dup")
                 /\ UNCHANGED <<dbExists, creates>>
            ELSE /\ dbExists' = TRUE
                 /\ creates' = creates + 1
                 /\ Logged(p, <<"create_ok">>)
                 /\ Goto(p, "migrate")
  /\ UNCHANGED <<flow, handle, urlForm, answer, precededBy, dbInit, dotEnv,
                 dbName>>
  /\ UNCHANGED <<menuVars, cfgVars>>

\* runMigrations and main lines 143-146: the blocking migration subprocess,
\* which can only succeed against an existing database
RunMigrations(p) ==
  /\ flow[p] = "init" /\ pc[p] = "migrate"
  /\ \E success \in BOOLEAN :
       /\ success => dbExists
       /\ IF success
          THEN /\ Logged(p, <<"migrate_start", "migrate_ok">>)
               /\ Goto(p, "ask_seed")
          ELSE /\ Logged(p, <<"migrate_start", "migrate_fail", "failed">>)
               /\ ProcessExit(p, 1)
  /\ UNCHANGED <<flow, handle, urlForm, answer, precededBy, dbExists, dbInit,
                 creates, dotEnv,
                 dbName, issued>>
  /\ UNCHANGED <<menuVars, cfgVars>>

\* variant: the comparison without toLowerCase
SeedConfirmedCaseSensitive(a) == Trim(a) = <<"y">>

\* main, line 150, on the answer askQuestion returned (trimmed, line 40)
SeedConfirmed(a) == ToLowerCase(Trim(a)) = <<"y">>

\* main, lines 149-150 and 157-159
AskSeed(p) ==
  /\ flow[p] = "init" /\ pc[p] = "ask_seed"
  /\ \E a \in Answers :
       /\ answer' = [answer EXCEPT ![p] = a]
       /\ IF SeedConfirmed(a)
          THEN /\ Logged(p, <<"ask_seed">>)
               /\ Goto(p, "seed")
          ELSE /\ Logged(p, <<"ask_seed", "completed">>)
               /\ Goto(p, "finally")
  /\ UNCHANGED <<flow, handle, urlForm, precededBy, dbExists, dbInit, creates,
                 dotEnv,
                 dbName, issued>>
  /\ UNCHANGED <<menuVars, cfgVars>>

\* variant: a failed seed is only reported, as in the wizard
SeedDatabaseLenient(p) ==
  /\ flow[p] = "init" /\ pc[p] = "seed"
  /\ \E success \in BOOLEAN :
       IF success
       THEN /\ Logged(p, <<"seed_start", "seed_ok", "completed">>)
            /\ Goto(p, "finally")
       ELSE /\ Logged(p, <<"seed_start", "seed_fail", "completed">>)
            /\ Goto(p, "finally")
  /\ UNCHANGED <<flow, handle, urlForm, answer, precededBy, dbExists, dbInit,
                 creates, dotEnv,
                 dbName, issued>>
  /\ UNCHANGED <<menuVars, cfgVars>>

\* seedDatabase and main lines 151-159: the blocking seed subprocess
SeedDatabase(p) ==
  /\ flow[p] = "init" /\ pc[p] = "seed"
  /\ \E success \in BOOLEAN :
       IF success
       THEN /\ Logged(p, <<"seed_start", "seed_ok", "completed">>)
            /\ Goto(p, "finally")
       ELSE /\ Logged(p, <<"seed_start", "seed_fail", "failed">>)
            /\ ProcessExit(p, 1)
  /\ UNCHANGED <<flow, handle, urlForm, answer, precededBy, dbExists, dbInit,
                 creates, dotEnv,
                 dbName, issued>>
  /\ UNCHANGED <<menuVars, cfgVars>>

\* main, lines 164-168: the finally block of a run that did not exit, then
\* the process ends on its own
Finally(p) ==
  /\ flow[p] = "init" /\ pc[p] = "finally"
  /\ handle' = [handle EXCEPT ![p] = IF handle[p] = "open" THEN "closed"
                                     ELSE handle[p]]
  /\ NaturalExit(p)
  /\ UNCHANGED <<flow, urlForm, answer, log, precededBy, dbExists, dbInit,
                 creates, dotEnv,
                 dbName, issued>>
  /\ UNCHANGED <<menuVars, cfgVars>>

--------------------------------------------------------------------------
(* scripts/setup.js *)

\* main, lines 66-84: the required tools
SetupCheckTools(p) ==
  /\ flow[p] = "setup" /\ pc[p] = "start"
  /\ \E missing \in BOOLEAN :
       IF missing
       THEN /\ Logged(p, <<"tools_missing">>)
            /\ ProcessExit(p, 1)
       ELSE /\ Logged(p, <<"tools_ok">>)
            /\ Goto(p, "env")
  /\ UNCHANGED <<flow, handle, urlForm, answer, precededBy, dbExists, dbInit,
                 creates, dotEnv,
                 dbName, issued>>
  /\ UNCHANGED <<menuVars, cfgVars>>

\* variant: the answer is trimmed before the comparison
OverwriteConfirmedTrimmed(a) == ToLowerCase(Trim(a)) = <<"y">>

\* main, line 94, on the answer as typed (this askQuestion does not trim)
OverwriteConfirmed(a) == ToLowerCase(a) = <<"y">>

\* main, lines 86-101, with configureEnv: the .env file of the wizard
SetupEnv(p) ==
  /\ flow[p] = "setup" /\ pc[p] = "env"
  /\ IF dotEnv # "absent"
     THEN \E a \in Answers :
            /\ answer' = [answer EXCEPT ![p] = a]
            /\ IF OverwriteConfirmed(a)
               THEN /\ dotEnv' = "new"
                    /\ Logged(p, <<"env_written">>)
               ELSE /\ UNCHANGED dotEnv
                    /\ Logged(p, <<"env_skip">>)
     ELSE /\ dotEnv' = "new"
          /\ Logged(p, <<"env_written">>)
          /\ UNCHANGED answer
  /\ Goto(p, "install")
  /\ UNCHANGED <<flow, handle, urlForm, precededBy, dbExists, dbInit, creates,
                 dbName, issued>>
  /\ UNCHANGED <<menuVars, cfgVars>>

\* main, lines 103-112: npm install
SetupInstall(p) ==
  /\ flow[p] = "setup" /\ pc[p] = "install"
  /\ \E success \in BOOLEAN :
       IF success
       THEN /\ Logged(p, <<"install_ok">>)
            /\ Goto(p, "migrate")
       ELSE /\ Logged(p, <<"install_fail">>)
            /\ ProcessExit(p, 1)
  /\ UNCHANGED <<flow, handle, urlForm, answer, precededBy, dbExists, dbInit,
                 creates, dotEnv,
                 dbName, issued>>
  /\ UNCHANGED <<menuVars, cfgVars>>

\* variant: a failed migration is only reported
SetupMigrateLenient(p) ==
  /\ flow[p] = "setup" /\ pc[p] = "migrate"
  /\ \E success \in BOOLEAN :
       /\ success => dbExists
       /\ IF success
          THEN Logged(p, <<"migrate_start", "migrate_ok">>)
          ELSE Logged(p, <<"migrate_start", "migrate_fail">>)
       /\ Goto(p, "seed")
  /\ UNCHANGED <<flow, handle, urlForm, answer, precededBy, dbExists, dbInit,
                 creates, dotEnv,
                 dbName, issued>>
  /\ UNCHANGED <<menuVars, cfgVars>>

\* main, lines 114-123: the migration subprocess
SetupMigrate(p) ==
  /\ flow[p] = "setup" /\ pc[p] = "migrate"
  /\ \E success \in BOOLEAN :
       /\ success => dbExists
       /\ IF success
          THEN /\ Logged(p, <<"migrate_start", "migrate_ok">>)
               /\ Goto(p, "seed")
          ELSE /\ Logged(p, <<"migrate_start", "migrate_fail">>)
               /\ ProcessExit(p, 1)
  /\ UNCHANGED <<flow, handle, urlForm, answer, precededBy, dbExists, dbInit,
                 creates, dotEnv,
                 dbName, issued>>
  /\ UNCHANGED <<menuVars, cfgVars>>

\* variant: a failed admin creation ends the wizard with status 1
SetupCreateAdminStrict(p) ==
  /\ flow[p] = "setup" /\ pc[p] = "seed"
  /\ \E success \in BOOLEAN :
       IF success
       THEN /\ Logged(p, <<"seed_start", "seed_ok", "completed">>)
            /\ NaturalExit(p)
       ELSE /\ Logged(p, <<"seed_start", "seed_fail">>)
            /\ ProcessExit(p, 1)
  /\ UNCHANGED <<flow, handle, urlForm, answer, precededBy, dbExists, dbInit,
                 creates, dotEnv,
                 dbName, issued>>
  /\ UNCHANGED <<menuVars, cfgVars>>

\* main, lines 125-142: the default admin user, then the end of the wizard
SetupCreateAdmin(p) ==
  /\ flow[p] = "setup" /\ pc[p] = "seed"
  /\ \E success \in BOOLEAN :
       IF success
       THEN Logged(p, <<"seed_start", "seed_ok", "completed">>)
       ELSE Logged(p, <<"seed_start", "seed_fail", "seed_warned", "completed">>)
  /\ NaturalExit(p)
  /\ UNCHANGED <<flow, handle, urlForm, answer, precededBy, dbExists, dbInit,
                 creates, dotEnv,
                 dbName, issued>>
  /\ UNCHANGED <<menuVars, cfgVars>>

--------------------------------------------------------------------------
(* config: initializeDatabase (README.md, lines 171-205) *)

\* variant: the DATABASE_URL test is left out
MissingIsFatalNever(url) == FALSE

\* error code 3D000 with DATABASE_URL set is fatal, lines 176-181
MissingIsFatal(url) == url

\* variant: the create statement is issued whatever the query found
InitializeDatabaseProbeThenCreate(p) ==
  /\ flow[p] = "app" /\ pc[p] = "start"
  /\ Logged(p, <<IF dbExists THEN "probe_ok" ELSE "probe_missing">>)
  /\ Goto(p, "ensure_create")
  /\ UNCHANGED <<flow, handle, urlForm, answer, precededBy, dbExists, dbInit,
                 creates, dotEnv,
                 dbName, issued>>
  /\ UNCHANGED <<menuVars, cfgVars>>

\* lines 172-181 and 200-203: the liveness query on the target database
InitializeDatabaseProbe(p) ==
  /\ flow[p] = "app" /\ pc[p] = "start"
  /\ \E fault \in BOOLEAN :
       IF fault
       THEN /\ Logged(p, <<"probe_fail">>)
            /\ ProcessExit(p, 1)
       ELSE IF dbExists
            THEN /\ Logged(p, <<"probe_ok">>)
                 /\ Goto(p, "serving")
            ELSE IF MissingIsFatal(urlForm[p])
                 THEN /\ Logged(p, <<"probe_missing">>)
                      /\ ProcessExit(p, 1)
                 ELSE /\ Logged(p, <<"probe_missing">>)
                      /\ Goto(p, "ensure_create")
  /\ UNCHANGED <<flow, handle, urlForm, answer, precededBy, dbExists, dbInit,
                 creates, dotEnv,
                 dbName, issued>>
  /\ UNCHANGED <<menuVars, cfgVars>>

\* lines 183-199: the administrative pool and its create statement; the
\* catch block exits the process before the finally block
InitializeDatabaseCreate(p) ==
  /\ flow[p] = "app" /\ pc[p] = "ensure_create"
  /\ issued' = issued \cup {CreateStatementName(dbName)}
  /\ \E fault \in BOOLEAN :
       IF fault
       THEN /\ \E opened \in BOOLEAN :
                 handle' = [handle EXCEPT ![p] = IF opened THEN "open"
                                                 ELSE handle[p]]
            /\ Logged(p, <<"create_fault">>)
            /\ ProcessExit(p, 1)
            /\ UNCHANGED <<dbExists, creates>>
       ELSE IF dbExists
            THEN /\ handle' = [handle EXCEPT ![p] = "open"]
                 /\ Logged(p, <<"create_dup">>)
                 /\ ProcessExit(p, 1)
                 /\ UNCHANGED <<dbExists, creates>>
            ELSE /\ dbExists' = TRUE
                 /\ creates' = creates + 1
                 /\ handle' = [handle EXCEPT ![p] = "closed"]
                 /\ Logged(p, <<"create_ok">>)
                 /\ Goto(p, "serving")
  /\ UNCHANGED <<flow, urlForm, answer, precededBy, dbInit, dotEnv,
                 dbName>>
  /\ UNCHANGED <<menuVars, cfgVars>>

\* the status the operating system reports for process.exit(code): the
\* low eight bits of the code
ExitStatus(code) == code % 256

\* lines 211-214: an idle client of the pool reports an error
PoolError(p) ==
  /\ flow[p] = "app" /\ pc[p] = "serving"
  /\ Logged(p, <<"pool_error">>)
  /\ ProcessExit(p, ExitStatus(-1))
  /\ UNCHANGED <<flow, handle, urlForm, answer, precededBy, dbExists, dbInit,
                 creates, dotEnv,
                 dbName, issued>>
  /\ UNCHANGED <<menuVars, cfgVars>>

--------------------------------------------------------------------------
(* scripts/env-manager.js: text and map helpers *)

NoFile == [exists |-> FALSE, content |-> <<>>]

File(c) == [exists |-> TRUE, content |-> c]

\* position of the first c in s, 0 when there is none
IndexOf(s, c) ==
  IF \E i \in DOMAIN s : s[i] = c
  THEN CHOOSE i \in DOMAIN s : s[i] = c /\ \A j \in 1..(i - 1) : s[j] # c
  ELSE 0

\* String.prototype.split on a one-character separator
RECURSIVE Split(_, _)
Split(s, sep) ==
  LET i == IndexOf(s, sep)
  IN IF i = 0 THEN <<s>>
     ELSE <<SubSeq(s, 1, i - 1)>> \o Split(SubSeq(s, i + 1, Len(s)), sep)

\* Array.prototype.join on a one-character separator
RECURSIVE Join(_, _)
Join(parts, sep) ==
  IF Len(parts) = 0 THEN <<>>
  ELSE IF Len(parts) = 1 THEN parts[1]
  ELSE parts[1] \o <<sep>> \o Join(Tail(parts), sep)

\* String.prototype.includes
Includes(s, sub) ==
  \E i \in 0..(Len(s) - Len(sub)) : SubSeq(s, i + 1, i + Len(sub)) = sub

DigitChars == <<"0", "1", "2", "3", "4", "5", "6", "7", "8", "9">>

IsDigit(c) == \E i \in 1..10 : DigitChars[i] = c

DigitVal(c) == (CHOOSE i \in 1..10 : DigitChars[i] = c) - 1

\* an own property name that is an array index: such properties come first,
\* in ascending numeric order, when the entries of an object are listed
IsIndexKey(k) ==
  /\ Len(k) > 0
  /\ \A i \in DOMAIN k : IsDigit(k[i])
  /\ (Len(k) > 1 => k[1] # "0")

RECURSIVE IndexLess(_, _)
IndexLess(a, b) ==
  IF Len(a) # Len(b) THEN Len(a) < Len(b)
  ELSE IF Len(a) = 0 THEN FALSE
  ELSE IF a[1] # b[1] THEN DigitVal(a[1]) < DigitVal(b[1])
  ELSE IndexLess(Tail(a), Tail(b))

\* env.hasOwnProperty(key)
EnvHas(e, k) == \E i \in DOMAIN e : e[i].key = k

EnvGet(e, k) == e[CHOOSE i \in DOMAIN e : e[i].key = k].value

\* env[key] is truthy: the key is there with a non-empty value
Truthy(e, k) == EnvHas(e, k) /\ EnvGet(e, k) # <<>>

\* env[key] = value, in the order Object.entries lists the properties
EnvSet(e, k, v) ==
  IF EnvHas(e, k)
  THEN [i \in DOMAIN e |-> IF e[i].key = k THEN [key |-> k, value |-> v]
                           ELSE e[i]]
  ELSE IF IsIndexKey(k)
  THEN LET n == Cardinality({i \in DOMAIN e :
                               IsIndexKey(e[i].key) /\ IndexLess(e[i].key, k)})
       IN SubSeq(e, 1, n) \o <<[key |-> k, value |-> v]>>
            \o SubSeq(e, n + 1, Len(e))
  ELSE Append(e, [key |-> k, value |-> v])

\* delete env[key]
EnvDelete(e, k) == SelectSeq(e, LAMBDA x : x.key # k)

\* askQuestion, lines 30-40: the trimmed answer, or the default when empty
AskQuestion(typed, defaultValue) ==
  IF Trim(typed) # <<>> THEN Trim(typed) ELSE defaultValue

\* parseEnvFile, lines 46-56, over the lines that are left
RECURSIVE ParseLines(_, _)
ParseLines(lines, e) ==
  IF Len(lines) = 0 THEN e
  ELSE LET trimmed == Trim(Head(lines))
       IN IF trimmed = <<>> \/ Head(trimmed) = "#"
          THEN ParseLines(Tail(lines), e)
          ELSE LET parts == Split(trimmed, "=")
                   key == parts[1]
                   value == Trim(Join(Tail(parts), "="))
               IN IF key # <<>>
                  THEN ParseLines(Tail(lines), EnvSet(e, key, value))
                  ELSE ParseLines(Tail(lines), e)

\* parseEnvFile, lines 42-59
ParseEnvFile(content) == ParseLines(Split(content, "\n"), <<>>)

\* variant: the separator is written with a space on either side
StringifyEnvSpaced(e) ==
  Join([i \in DOMAIN e |-> e[i].key \o <<" ", "=", " ">> \o e[i].value],
       "\n") \o <<"\n">>

\* stringifyEnv, lines 61-65
StringifyEnv(e) ==
  Join([i \in DOMAIN e |-> e[i].key \o <<"=">> \o e[i].value], "\n")
    \o <<"\n">>

\* loadEnv, lines 67-80
LoadEnv(file, readOk) ==
  IF ~file.exists THEN <<>>
  ELSE IF readOk THEN ParseEnvFile(file.content)
  ELSE <<>>

\* console output: a line of data, or a message of the log helper
ConsoleLine(text) == [level |-> "line", msg |-> "", text |-> text]

Msg(level, msg, text) == [level |-> level, msg |-> msg, text |-> text]

SensitiveWords == {<<"P", "A", "S", "S", "W", "O", "R", "D">>, <<"S", "E", "C", "R", "E", "T">>, <<"K", "E", "Y">>, <<"T", "O", "K", "E", "N">>}

\* variant: the words are looked for in the key as it is written
IsSensitiveAsWritten(key) == \E w \in SensitiveWords : Includes(key, w)

\* listVariables, line 146
IsSensitive(key) == \E w \in SensitiveWords : Includes(ToUpperCase(key), w)

Mask == <<"*", "*", "*", "*", "*", "*", "*", "*">>

\* listVariables, lines 134-150
ListVariables(e) ==
  IF Len(e) = 0
  THEN <<Msg("line", "No environment variables set.", <<>>)>>
  ELSE [i \in DOMAIN e |->
          ConsoleLine(<<" ", " ">> \o e[i].key \o <<"=">>
                        \o (IF IsSensitive(e[i].key) THEN Mask
                            ELSE e[i].value))]

\* showSensitiveValues, lines 249-261
ShowSensitiveValues(e) ==
  IF Len(e) = 0
  THEN <<Msg("line", "No environment variables set.", <<>>)>>
  ELSE [i \in DOMAIN e |->
          ConsoleLine(<<" ", " ">> \o e[i].key \o <<"=">> \o e[i].value)]

\* variant: the value is stored as typed, with no default and no check
UpdateVariableAsTyped(e, typedKey, typedValue) ==
  IF Trim(typedKey) = <<>>
  THEN [env |-> e,
        out |-> <<Msg("warn", "Variable name cannot be empty", <<>>)>>]
  ELSE [env |-> EnvSet(e, Trim(typedKey), Trim(typedValue)),
        out |-> <<Msg("success", "Updated", Trim(typedKey))>>]

\* updateVariable, lines 152-169: the map and the output it leaves
UpdateVariable(e, typedKey, typedValue) ==
  LET key == AskQuestion(typedKey, <<>>)
  IN IF key = <<>>
     THEN [env |-> e,
           out |-> <<Msg("warn", "Variable name cannot be empty", <<>>)>>]
     ELSE LET currentValue == IF Truthy(e, key) THEN EnvGet(e, key) ELSE <<>>
              value == AskQuestion(typedValue, currentValue)
          IN IF value = <<>>
             THEN [env |-> e,
                   out |-> <<Msg("warn", "Value cannot be empty", <<>>)>>]
             ELSE [env |-> EnvSet(e, key, value),
                   out |-> <<Msg("success", "Updated", key)>>]

\* removeVariable, lines 171-184
RemoveVariable(e, typedKey) ==
  LET key == AskQuestion(typedKey, <<>>)
  IN IF key = <<>>
     THEN [env |-> e,
           out |-> <<Msg("warn", "Variable name cannot be empty", <<>>)>>]
     ELSE IF EnvHas(e, key)
     THEN [env |-> EnvDelete(e, key), out |-> <<Msg("success", "Removed", key)>>]
     ELSE [env |-> e, out |-> <<Msg("warn", "Variable not found", key)>>]

\* a number as a template literal writes it
RECURSIVE ToDecimal(_)
ToDecimal(n) ==
  IF n < 10 THEN <<DigitChars[n + 1]>>
  ELSE ToDecimal(n \div 10) \o <<DigitChars[(n % 10) + 1]>>

\* variant: the template's value replaces the value of a key that is there
RECURSIVE ImportEntriesOverwriting(_, _, _)
ImportEntriesOverwriting(e, ex, imported) ==
  IF Len(ex) = 0 THEN [env |-> e, imported |-> imported]
  ELSE ImportEntriesOverwriting(EnvSet(e, Head(ex).key, Head(ex).value),
                                Tail(ex),
                                IF EnvHas(e, Head(ex).key) THEN imported
                                ELSE imported + 1)

\* importFromExample, lines 196-202, over the template entries that are left
RECURSIVE ImportEntries(_, _, _)
ImportEntries(e, ex, imported) ==
  IF Len(ex) = 0 THEN [env |-> e, imported |-> imported]
  ELSE IF ~EnvHas(e, Head(ex).key)
  THEN ImportEntries(EnvSet(e, Head(ex).key, Head(ex).value), Tail(ex),
                     imported + 1)
  ELSE ImportEntries(e, Tail(ex), imported)

\* importFromExample, lines 186-212
ImportFromExample(e, example, readOk) ==
  IF ~example.exists
  THEN [env |-> e, imported |-> 0,
        out |-> <<Msg("error", "example file not found", <<>>)>>]
  ELSE IF ~readOk
  THEN [env |-> e, imported |-> 0,
        out |-> <<Msg("error", "Failed to import", <<>>)>>]
  ELSE LET r == ImportEntries(e, ParseEnvFile(example.content), 0)
       IN [env |-> r.env, imported |-> r.imported,
           out |-> IF r.imported > 0
                   THEN <<Msg("success", "Imported variables",
                              ToDecimal(r.imported))>>
                   ELSE <<Msg("info", "No new variables to import", <<>>)>>]

\* validateConfig, lines 216-226
Required == <<<<"N", "O", "D", "E", "_", "E", "N", "V">>,
             <<"P", "O", "R", "T">>,
             <<"J", "W", "T", "_", "S", "E", "C", "R", "E", "T">>,
             <<"F", "R", "O", "N", "T", "E", "N", "D", "_", "U", "R", "L">>,
             <<"D", "B", "_", "H", "O", "S", "T">>,
             <<"D", "B", "_", "P", "O", "R", "T">>,
             <<"D", "B", "_", "N", "A", "M", "E">>,
             <<"D", "B", "_", "U", "S", "E", "R">>,
             <<"D", "B", "_", "P", "A", "S", "S", "W", "O", "R", "D">>>>

\* variant: only the required keys that are not in the map at all
MissingAbsentOnly(e) == SelectSeq(Required, LAMBDA k : ~EnvHas(e, k))

\* validateConfig, lines 229-236
Missing(e) == SelectSeq(Required, LAMBDA k : ~Truthy(e, k))

\* validateConfig, lines 214-247
ValidateConfig(e) ==
  [valid |-> Len(Missing(e)) = 0,
   out |-> IF Len(Missing(e)) = 0
           THEN <<Msg("success", "Configuration is valid!", <<>>)>>
           ELSE <<Msg("error", "Missing required configuration:", <<>>)>>
                  \o [i \in DOMAIN Missing(e) |->
                        ConsoleLine(<<" ", " ", "-", " ">> \o Missing(e)[i])]]

--------------------------------------------------------------------------
(* scripts/env-manager.js: the session *)

\* what the operator types at the menu prompt
TypedChoices ==
  {<<"1">>, <<"2">>, <<"3">>, <<"4">>, <<"5">>, <<"6">>, <<"s">>, <<"q">>,
   <<" ", "q">>, <<"S">>, <<>>}

\* what the operator types for a variable name and for a value
TypedKeys ==
  {<<>>, <<"P">>, <<" ", "P", " ">>, <<"K", "E", "Y">>, <<"1">>, <<"#">>}

TypedValues == {<<>>, <<" ", "w", " ">>}

\* the configuration files a session can start from
InitFiles ==
  {NoFile,
   File(<<"P", "=", "v", "\n">>),
   File(<<"#", " ", "c", "\n", "P", "=", "v", "\n", "\n", "X", "\n", "K", "E", "Y", "=", "s", "=", "t", " ", "\n">>),
   File(<<"B", "=", "\n", "1", "=", "v", "\n",
          "a", "K", "e", "y", "=", "z", "\n">>)}

ExampleFiles ==
  {NoFile,
   File(<<"P", "=", "d", "\n", "K", "E", "Y", "=", "k", "\n", "N", "=", "\n",
          "B", "=", "b", "\n">>)}

\* showMenu, lines 99-108
OptionKeys ==
  {<<"1">>, <<"2">>, <<"3">>, <<"4">>, <<"5">>, <<"6">>, <<"s">>, <<"q">>}

\* main, line 267
MainLoadEnv ==
  /\ mpc = "start"
  /\ \E readOk \in BOOLEAN :
       /\ env' = LoadEnv(envFile, readOk)
       /\ out' = IF ~envFile.exists
                 THEN <<Msg("warn", ".env file does not exist", <<>>)>>
                 ELSE IF ~readOk THEN <<Msg("error", "Failed to read", <<>>)>>
                 ELSE <<>>
  /\ mpc' = "menu"
  /\ UNCHANGED <<envFile, file0, exampleFile, lastChoice, saves, steps>>
  /\ UNCHANGED <<bootVars, cfgVars>>

\* showMenu, lines 114-131, for a choice that runs an action and comes back
Round(typed, key) ==
  /\ mpc = "menu" /\ steps < MaxMenuSteps
  /\ AskQuestion(typed, <<>>) = key
  /\ lastChoice' = key
  /\ steps' = steps + 1
  /\ UNCHANGED <<mpc, file0, exampleFile, saves>>
  /\ UNCHANGED <<bootVars, cfgVars>>

\* choice 1
MenuList ==
  \E c \in TypedChoices :
    /\ Round(c, <<"1">>)
    /\ out' = ListVariables(env)
    /\ UNCHANGED <<env, envFile>>

\* choice 2
MenuUpdate ==
  \E c \in TypedChoices, k \in TypedKeys, v \in TypedValues :
    /\ Round(c, <<"2">>)
    /\ env' = UpdateVariable(env, k, v).env
    /\ out' = UpdateVariable(env, k, v).out
    /\ UNCHANGED envFile

\* choice 3
MenuRemove ==
  \E c \in TypedChoices, k \in TypedKeys :
    /\ Round(c, <<"3">>)
    /\ env' = RemoveVariable(env, k).env
    /\ out' = RemoveVariable(env, k).out
    /\ UNCHANGED envFile

\* choice 4
MenuImport ==
  \E c \in TypedChoices, readOk \in BOOLEAN :
    /\ Round(c, <<"4">>)
    /\ env' = ImportFromExample(env, exampleFile, readOk).env
    /\ out' = ImportFromExample(env, exampleFile, readOk).out
    /\ UNCHANGED envFile

\* choice 5
MenuValidate ==
  \E c \in TypedChoices :
    /\ Round(c, <<"5">>)
    /\ out' = ValidateConfig(env).out
    /\ UNCHANGED <<env, envFile>>

\* choice 6
MenuReveal ==
  \E c \in TypedChoices :
    /\ Round(c, <<"6">>)
    /\ out' = ShowSensitiveValues(env)
    /\ UNCHANGED <<env, envFile>>

\* variant: a choice that no option has ends the session
MenuInvalidQuits ==
  /\ mpc = "menu" /\ steps < MaxMenuSteps
  /\ \E c \in TypedChoices :
       /\ AskQuestion(c, <<>>) \notin OptionKeys
       /\ lastChoice' = AskQuestion(c, <<>>)
  /\ out' = <<Msg("info", "Goodbye!", <<>>)>>
  /\ steps' = steps + 1
  /\ mpc' = "exited"
  /\ UNCHANGED <<env, envFile, file0, exampleFile, saves>>
  /\ UNCHANGED <<bootVars, cfgVars>>

\* showMenu, lines 124-129: no option has the choice as its key
MenuInvalid ==
  \E c \in TypedChoices :
    /\ AskQuestion(c, <<>>) \notin OptionKeys
    /\ Round(c, AskQuestion(c, <<>>))
    /\ out' = <<Msg("warn", "Invalid choice. Please try again.", <<>>)>>
    /\ UNCHANGED <<env, envFile>>

\* variant: the write never reaches the file
SaveEnvStale(e, writeOk) == envFile

\* saveEnv, lines 82-92: the file after a write that succeeds or fails
SaveEnv(e, writeOk) == IF writeOk THEN File(StringifyEnv(e)) ELSE envFile

\* showMenu, lines 116-118, and main, lines 272-281: save and exit
MenuSave ==
  /\ mpc = "menu"
  /\ \E c \in TypedChoices, writeOk \in BOOLEAN :
       /\ AskQuestion(c, <<>>) = <<"s">>
       /\ envFile' = SaveEnv(env, writeOk)
       /\ out' = <<IF writeOk
                   THEN Msg("success", "Environment variables saved", <<>>)
                   ELSE Msg("error", "Failed to save", <<>>),
                   Msg("info", "Goodbye!", <<>>)>>
  /\ saves' = saves + 1
  /\ lastChoice' = <<"s">>
  /\ mpc' = "exited"
  /\ UNCHANGED <<env, file0, exampleFile, steps>>
  /\ UNCHANGED <<bootVars, cfgVars>>

\* variant: the map is written on the way out, whatever the choice was
MenuQuitSaving ==
  /\ mpc = "menu"
  /\ \E c \in TypedChoices :
       AskQuestion(c, <<>>) = <<"q">>
  /\ envFile' = SaveEnv(env, TRUE)
  /\ out' = <<Msg("info", "Goodbye!", <<>>)>>
  /\ lastChoice' = <<"q">>
  /\ mpc' = "exited"
  /\ UNCHANGED <<env, file0, exampleFile, saves, steps>>
  /\ UNCHANGED <<bootVars, cfgVars>>

\* showMenu, lines 120-122, and main, lines 272-281: exit without saving
MenuQuit ==
  /\ mpc = "menu"
  /\ \E c \in TypedChoices :
       AskQuestion(c, <<>>) = <<"q">>
  /\ out' = <<Msg("info", "Goodbye!", <<>>)>>
  /\ lastChoice' = <<"q">>
  /\ mpc' = "exited"
  /\ UNCHANGED <<env, envFile, file0, exampleFile, saves, steps>>
  /\ UNCHANGED <<bootVars, cfgVars>>

--------------------------------------------------------------------------
(* config (README.md): getDbConfig *)

\* a variable of the environment: not set, or set to a text
Unset == [set |-> FALSE, text |-> <<>>]

Str(t) == [set |-> TRUE, text |-> t]

\* a field of the descriptor: undefined, a string or a number
Undefined == [t |-> "undefined", v |-> <<>>]

JsString(x) == [t |-> "string", v |-> x]

JsNumber(n) == [t |-> "number", v |-> ToDecimal(n)]

\* the value of a property that reads a variable of the environment
JsVar(x) == IF x.set THEN JsString(x.text) ELSE Undefined

\* a value is truthy: a string that is not empty, or a number that is not 0
JsTruthy(x) ==
  \/ x.t = "string" /\ x.v # <<>>
  \/ x.t = "number" /\ x.v # <<"0">>

\* String.prototype.lastIndexOf for one character, 0 when it is not there
LastIndexOf(s, c) ==
  IF \E i \in DOMAIN s : s[i] = c
  THEN CHOOSE i \in DOMAIN s : s[i] = c /\ \A j \in DOMAIN s : j > i => s[j] # c
  ELSE 0

\* new URL(text), for a scheme that is not http, https, ws, wss, ftp or
\* file: the scheme ends at the first colon; after // the authority runs to
\* the next slash; the user information ends at the last @ and is split at
\* its first colon; the port follows the last colon of the rest and is made
\* of digits; the path is what is left
ParseUrl(text) ==
  LET c == IndexOf(text, ":")
      rest == SubSeq(text, c + 1, Len(text))
      hasAuth == Len(rest) >= 2 /\ rest[1] = "/" /\ rest[2] = "/"
      afterSlashes == SubSeq(rest, 3, Len(rest))
      slash == IndexOf(afterSlashes, "/")
      authority == IF ~hasAuth THEN <<>>
                   ELSE IF slash = 0 THEN afterSlashes
                   ELSE SubSeq(afterSlashes, 1, slash - 1)
      pathname == IF ~hasAuth THEN rest
                  ELSE IF slash = 0 THEN <<>>
                  ELSE SubSeq(afterSlashes, slash, Len(afterSlashes))
      at == LastIndexOf(authority, "@")
      userinfo == SubSeq(authority, 1, at - 1)
      hostport == SubSeq(authority, at + 1, Len(authority))
      uc == IndexOf(userinfo, ":")
      hc == LastIndexOf(hostport, ":")
      port == IF hc = 0 THEN <<>> ELSE SubSeq(hostport, hc + 1, Len(hostport))
  IN IF c <= 1 \/ \E i \in DOMAIN port : ~IsDigit(port[i])
     THEN [ok |-> FALSE, username |-> <<>>, password |-> <<>>,
           hostname |-> <<>>, port |-> <<>>, pathname |-> <<>>]
     ELSE [ok |-> TRUE,
           username |-> IF uc = 0 THEN userinfo
                        ELSE SubSeq(userinfo, 1, uc - 1),
           password |-> IF uc = 0 THEN <<>>
                        ELSE SubSeq(userinfo, uc + 1, Len(userinfo)),
           hostname |-> IF hc = 0 THEN hostport
                        ELSE SubSeq(hostport, 1, hc - 1),
           port |-> port,
           pathname |-> pathname]

\* pathname.replace(/^\//, '')
StripLeadingSlash(s) ==
  IF Len(s) > 0 /\ s[1] = "/" THEN Tail(s) ELSE s

Production == <<"p", "r", "o", "d", "u", "c", "t", "i", "o", "n">>

\* the ssl field: { rejectUnauthorized: false } in production, else false
Ssl(pe) ==
  IF pe.NODE_ENV = Str(Production) THEN "noVerify" ELSE "off"

NoDescriptor ==
  [user |-> Undefined, password |-> Undefined, host |-> Undefined,
   port |-> Undefined, database |-> Undefined, ssl |-> "none"]

\* variant: the discrete variables win when the host is among them
GetDbConfigDiscreteFirst(pe) ==
  IF pe.DB_HOST.set \/ ~JsTruthy(JsVar(pe.DATABASE_URL))
  THEN [exit |-> -1,
        config |-> [user |-> JsVar(pe.DB_USER),
                    password |-> JsVar(pe.DB_PASSWORD),
                    host |-> JsVar(pe.DB_HOST),
                    port |-> IF JsTruthy(JsVar(pe.DB_PORT))
                             THEN JsVar(pe.DB_PORT) ELSE JsNumber(5432),
                    database |-> JsVar(pe.DB_NAME),
                    ssl |-> Ssl(pe)]]
  ELSE LET url == ParseUrl(pe.DATABASE_URL.text)
       IN IF ~url.ok THEN [exit |-> 1, config |-> NoDescriptor]
          ELSE [exit |-> -1,
                config |-> [user |-> JsString(url.username),
                            password |-> JsString(url.password),
                            host |-> JsString(url.hostname),
                            port |-> IF url.port # <<>>
                                     THEN JsString(url.port)
                                     ELSE JsNumber(5432),
                            database |->
                              JsString(StripLeadingSlash(url.pathname)),
                            ssl |-> Ssl(pe)]]

\* getDbConfig, README lines 134-165: the descriptor, or the exit status
\* when the process ends instead (-1 when it does not)
GetDbConfig(pe) ==
  IF JsTruthy(JsVar(pe.DATABASE_URL))
  THEN LET url == ParseUrl(pe.DATABASE_URL.text)
       IN IF ~url.ok THEN [exit |-> 1, config |-> NoDescriptor]
          ELSE [exit |-> -1,
                config |-> [user |-> JsString(url.username),
                            password |-> JsString(url.password),
                            host |-> JsString(url.hostname),
                            port |-> IF url.port # <<>>
                                     THEN JsString(url.port)
                                     ELSE JsNumber(5432),
                            database |->
                              JsString(StripLeadingSlash(url.pathname)),
                            ssl |-> Ssl(pe)]]
  ELSE [exit |-> -1,
        config |-> [user |-> JsVar(pe.DB_USER),
                    password |-> JsVar(pe.DB_PASSWORD),
                    host |-> JsVar(pe.DB_HOST),
                    port |-> IF JsTruthy(JsVar(pe.DB_PORT))
                             THEN JsVar(pe.DB_PORT) ELSE JsNumber(5432),
                    database |-> JsVar(pe.DB_NAME),
                    ssl |-> Ssl(pe)]]

\* the values of DATABASE_URL that are tried
UrlTexts ==
  {<<"p", ":", "/", "/", "u", ":", "w", "@", "h", ":", "7", "/", "d">>,
   <<"p", ":", "/", "/", "u", "@", "h", "/", "d">>,
   <<"p", ":", "/", "/", "h", ":", "7", "/", "/", "d">>,
   <<"n", "o", "u", "r", "l">>,
   <<"p", ":", "/", "/", "u", ":", "w", "@", "h", ":", "x", "/", "d">>}

UrlValues == {Unset, Str(<<>>)} \cup {Str(t) : t \in UrlTexts}

ModeValues ==
  {Unset, Str(Production),
   Str(<<"d", "e", "v">>),
   Str(<<"P", "r", "o", "d", "u", "c", "t", "i", "o", "n">>)}

\* the environments a process can start in
ProcessEnvs ==
  [DATABASE_URL : UrlValues,
   NODE_ENV : ModeValues,
   DB_USER : {Unset, Str(<<"a">>)},
   DB_PASSWORD : {Unset, Str(<<"b">>)},
   DB_HOST : {Unset, Str(<<"c">>)},
   DB_PORT : {Unset, Str(<<>>), Str(<<"6">>)},
   DB_NAME : {Unset, Str(<<"e">>)}]

\* new Pool(getDbConfig()), README line 168
ResolveConfig ==
  /\ cpc = "start"
  /\ descriptor' = GetDbConfig(cfgEnv).config
  /\ cfgExit' = GetDbConfig(cfgEnv).exit
  /\ cpc' = IF GetDbConfig(cfgEnv).exit = -1 THEN "configured" ELSE "exited"
  /\ UNCHANGED cfgEnv
  /\ UNCHANGED <<bootVars, menuVars>>

CfgIdle ==
  /\ cfgEnv = [DATABASE_URL |-> Unset, NODE_ENV |-> Unset, DB_USER |-> Unset,
               DB_PASSWORD |-> Unset, DB_HOST |-> Unset, DB_PORT |-> Unset,
               DB_NAME |-> Unset]
  /\ cpc = "idle"
  /\ descriptor = NoDescriptor
  /\ cfgExit = -1

--------------------------------------------------------------------------
(* The bootstrap processes together; the environment manager is not running *)

MenuIdle ==
  /\ mpc = "idle"
  /\ env = <<>>
  /\ envFile = NoFile
  /\ file0 = NoFile
  /\ exampleFile = NoFile
  /\ lastChoice = <<>>
  /\ out = <<>>
  /\ saves = 0
  /\ steps = 0

Init ==
  /\ flow \in [Procs -> Flows]
  /\ pc = [p \in Procs |-> "start"]
  /\ exitCode = [p \in Procs |-> -1]
  /\ handle = [p \in Procs |-> "none"]
  /\ urlForm \in [Procs -> BOOLEAN]
  /\ \A p \in Procs : flow[p] # "app" => ~urlForm[p]
  /\ answer = [p \in Procs |-> <<>>]
  /\ log = [p \in Procs |-> <<>>]
  /\ precededBy = [p \in Procs |-> {}]
  /\ dbExists \in BOOLEAN
  /\ dbInit = dbExists
  /\ creates = 0
  /\ dotEnv \in {"absent", "old"}
  /\ dbName = DefaultDbName
  /\ issued = {}
  /\ MenuIdle
  /\ CfgIdle

Next ==
  \E p \in Procs :
    \/ CheckDatabaseConnection(p)
    \/ CreateDatabaseCheck(p)
    \/ CreateDatabaseCreate(p)
    \/ RunMigrations(p)
    \/ AskSeed(p)
    \/ SeedDatabase(p)
    \/ Finally(p)
    \/ SetupCheckTools(p)
    \/ SetupEnv(p)
    \/ SetupInstall(p)
    \/ SetupMigrate(p)
    \/ SetupCreateAdmin(p)
    \/ InitializeDatabaseProbe(p)
    \/ InitializeDatabaseCreate(p)
    \/ PoolError(p)

Spec == Init /\ [][Next]_vars

--------------------------------------------------------------------------
(* The provisioning flows with the database name taken from configuration *)

\* the names a configuration can give
DbNames ==
  {DefaultDbName,
   <<"m", "_", "1">>,
   <<"m", "-", "c">>,
   <<"m", ";", "x">>}

InitCreate ==
  /\ flow \in [Procs -> {"init", "app"}]
  /\ pc = [p \in Procs |-> "start"]
  /\ exitCode = [p \in Procs |-> -1]
  /\ handle = [p \in Procs |-> "none"]
  /\ urlForm = [p \in Procs |-> FALSE]
  /\ answer = [p \in Procs |-> <<>>]
  /\ log = [p \in Procs |-> <<>>]
  /\ precededBy = [p \in Procs |-> {}]
  /\ dbExists \in BOOLEAN
  /\ dbInit = dbExists
  /\ creates = 0
  /\ dotEnv = "absent"
  /\ dbName \in DbNames
  /\ issued = {}
  /\ MenuIdle
  /\ CfgIdle

NextCreate ==
  \E p \in Procs :
    \/ CheckDatabaseConnection(p)
    \/ CreateDatabaseCheck(p)
    \/ CreateDatabaseCreate(p)
    \/ RunMigrations(p)
    \/ AskSeed(p)
    \/ SeedDatabase(p)
    \/ Finally(p)
    \/ InitializeDatabaseProbe(p)
    \/ InitializeDatabaseCreate(p)
    \/ PoolError(p)

SpecCreate == InitCreate /\ [][NextCreate]_vars

--------------------------------------------------------------------------
(* One session of the environment manager; no bootstrap process is running *)

BootIdle ==
  /\ flow = [p \in Procs |-> "init"]
  /\ pc = [p \in Procs |-> "idle"]
  /\ exitCode = [p \in Procs |-> -1]
  /\ handle = [p \in Procs |-> "none"]
  /\ urlForm = [p \in Procs |-> FALSE]
  /\ answer = [p \in Procs |-> <<>>]
  /\ log = [p \in Procs |-> <<>>]
  /\ precededBy = [p \in Procs |-> {}]
  /\ dbExists = FALSE
  /\ dbInit = FALSE
  /\ creates = 0
  /\ dotEnv = "absent"
  /\ dbName = DefaultDbName
  /\ issued = {}

InitMenu ==
  /\ mpc = "start"
  /\ env = <<>>
  /\ envFile \in InitFiles
  /\ file0 = envFile
  /\ exampleFile \in ExampleFiles
  /\ lastChoice = <<>>
  /\ out = <<>>
  /\ saves = 0
  /\ steps = 0
  /\ BootIdle
  /\ CfgIdle

NextMenu ==
  \/ MainLoadEnv
  \/ MenuList
  \/ MenuUpdate
  \/ MenuRemove
  \/ MenuImport
  \/ MenuValidate
  \/ MenuReveal
  \/ MenuInvalid
  \/ MenuSave
  \/ MenuQuit

SpecMenu == InitMenu /\ [][NextMenu]_vars

--------------------------------------------------------------------------
(* Sessions of the environment manager that validate a configuration file *)

\* at most this many required keys of a file are absent or empty
MaxUnset == 2

KeyStates == {"absent", "empty", "set"}

\* the file with a line for each required key that is not absent, in the
\* order of the required keys, the value empty or set
RECURSIVE ConfigLines(_, _)
ConfigLines(st, i) ==
  IF i > Len(Required) THEN <<>>
  ELSE (IF st[i] = "absent" THEN <<>>
        ELSE Required[i] \o <<"=">>
               \o (IF st[i] = "set" THEN <<"x">> ELSE <<>>) \o <<"\n">>)
         \o ConfigLines(st, i + 1)

ValidateFiles ==
  {File(ConfigLines(st, 1)) :
     st \in {f \in [DOMAIN Required -> KeyStates] :
               Cardinality({i \in DOMAIN Required : f[i] # "set"})
                 <= MaxUnset}}

InitValidate ==
  /\ mpc = "start"
  /\ env = <<>>
  /\ envFile \in ValidateFiles
  /\ file0 = envFile
  /\ exampleFile = NoFile
  /\ lastChoice = <<>>
  /\ out = <<>>
  /\ saves = 0
  /\ steps = 0
  /\ BootIdle
  /\ CfgIdle

NextValidate ==
  \/ MainLoadEnv
  \/ MenuValidate
  \/ MenuQuit

SpecValidate == InitValidate /\ [][NextValidate]_vars

--------------------------------------------------------------------------
(* The start of the application: the pool's configuration is resolved *)

InitConfig ==
  /\ cfgEnv \in ProcessEnvs
  /\ cpc = "start"
  /\ descriptor = NoDescriptor
  /\ cfgExit = -1
  /\ BootIdle
  /\ MenuIdle

NextConfig == ResolveConfig

SpecConfig == InitConfig /\ [][NextConfig]_vars

--------------------------------------------------------------------------
(* Properties of the bootstrap flows *)

Bootstraps == {p \in Procs : flow[p] \in {"init", "setup"}}

Exited(p) == pc[p] = "exited"

\* ev1 is in p's log and comes before ev2 there
Before(p, ev1, ev2) == Has(p, ev1) /\ Has(p, ev2) /\ Idx(p, ev1) < Idx(p, ev2)

EnsureTrue(p) == Has(p, "check_present") \/ Has(p, "create_ok")

NoFault(p) == ~Has(p, "check_error") /\ ~Has(p, "create_fault")

\* C1, as stated: in the initialization flow and in the setup wizard alike,
\* migrations start only after a successful probe with the database known to
\* exist, and the seed starts only after migrations succeeded
C1_Original ==
  \A p \in Bootstraps :
    /\ Has(p, "migrate_start") =>
         /\ Before(p, "probe_ok", "migrate_start")
         /\ EnsureTrue(p)
    /\ Has(p, "seed_start") => Before(p, "migrate_ok", "seed_start")

\* C1, amended: the ordering Probe, EnsureDatabase, RunMigrations, RunSeed
\* holds in the initialization flow, where migrations start only after a
\* successful probe and with the database in the catalog; the setup wizard
\* has no probe and no EnsureDatabase stage, its migrations start after the
\* dependencies were installed; in both the seed starts only after
\* migrations succeeded
C1_StageOrder ==
  \A p \in Bootstraps :
    /\ flow[p] = "init" =>
         /\ (Has(p, "check_present") \/ Has(p, "check_missing")
               \/ Has(p, "check_error")) => Idx(p, "probe_ok") = 1
         /\ Has(p, "migrate_start") =>
              /\ Before(p, "probe_ok", "migrate_start")
              /\ \/ Before(p, "check_present", "migrate_start")
                 \/ Before(p, "create_ok", "migrate_start")
              /\ dbExists
    /\ flow[p] = "setup" =>
         /\ ~Has(p, "probe_ok") /\ ~Has(p, "probe_fail")
         /\ ~Has(p, "check_present") /\ ~Has(p, "check_missing")
         /\ ~Has(p, "create_ok")
         /\ Has(p, "migrate_start") => Before(p, "install_ok", "migrate_start")
    /\ Has(p, "seed_start") => Before(p, "migrate_ok", "seed_start")

C1_Witness ==
  \E p, q \in Procs :
    /\ flow[p] = "init" /\ Has(p, "create_ok") /\ Has(p, "seed_ok")
    /\ flow[q] = "setup" /\ Has(q, "seed_start")

\* C2: a process that has exited holds no open connection handle
C2_HandleReleasedOnExit ==
  \A p \in Procs : Exited(p) => handle[p] # "open"

\* C3: when two provisioners both find the database missing and one creates
\* it first, the failed create of the other is benign: its createDatabase
\* succeeds and its run does not fail
C3_RaceIsBenign ==
  \A p, q \in Procs :
    ( /\ p # q /\ flow[p] = "init" /\ flow[q] = "init"
      /\ Has(p, "check_missing") /\ Has(q, "check_missing")
      /\ Has(q, "create_ok") /\ Has(p, "create_dup") )
    => (~Has(p, "failed") /\ exitCode[p] # 1)

\* C4: two createDatabase calls in sequence (the second begins after the
\* first returned) on a server that answers every query both return true,
\* the second issues no create statement and meets no error, and the
\* database is in the catalog exactly once, whether or not it was there
\* before the first call
C4_EnsureIdempotent ==
  \A p, q \in Procs :
    ( /\ p # q /\ flow[p] = "init" /\ flow[q] = "init"
      /\ p \in precededBy[q] /\ EnsureReturned(q)
      /\ NoFault(p) /\ NoFault(q) )
    => /\ EnsureTrue(p) /\ EnsureTrue(q)
       /\ Has(q, "check_present")
       /\ ~Has(q, "check_missing") /\ ~Has(q, "create_ok")
       /\ ~Has(q, "create_dup") /\ ~Has(q, "check_error")
       /\ dbExists
       /\ (IF dbInit THEN 1 ELSE 0) + creates = 1

C4_Witness ==
  \E p, q \in Procs :
    /\ p # q /\ p \in precededBy[q]
    /\ Has(p, "create_ok") /\ Has(q, "check_present")

\* C5: with DATABASE_URL set and the target database missing, the process
\* ends with exit code 1 and issues no create statement
C5_UrlFormMissingIsFatal ==
  \A p \in Procs :
    (flow[p] = "app" /\ urlForm[p] /\ Has(p, "probe_missing")) =>
      /\ Exited(p) /\ exitCode[p] = 1
      /\ ~Has(p, "create_ok") /\ ~Has(p, "create_dup")
      /\ ~Has(p, "create_fault")
      /\ handle[p] = "none"

C5_Witness ==
  \E p \in Procs :
    flow[p] = "app" /\ urlForm[p] /\ Has(p, "probe_missing") /\ ~dbExists

\* C6, as stated: a run on its own (no other process is active) that finds
\* the server reachable and the database missing, and whose migrations
\* succeed, has created the database before the migrations and ends with
\* exit code 0
C6_Original ==
  \A p \in Procs :
    ( /\ flow[p] = "init" /\ ~urlForm[p] /\ NoFault(p)
      /\ \A q \in Procs \ {p} : log[q] = <<>>
      /\ Has(p, "probe_ok") /\ Has(p, "check_missing")
      /\ Has(p, "migrate_ok") /\ Exited(p) )
    => /\ Before(p, "create_ok", "migrate_start")
       /\ exitCode[p] = 0

\* C6, amended: a run that finds the server reachable and the database
\* missing, whose create statement succeeds and whose migrations succeed,
\* has reported reachable, then missing, then created the database, then run
\* the migrations, and ends with exit code 0 unless the operator confirmed
\* the seed and the seed subprocess failed, when it ends with exit code 1
C6_FreshSetup ==
  \A p \in Procs :
    ( /\ flow[p] = "init" /\ ~urlForm[p]
      /\ Has(p, "check_missing") /\ Has(p, "create_ok")
      /\ Has(p, "migrate_ok") )
    => /\ Before(p, "probe_ok", "check_missing")
       /\ Before(p, "check_missing", "create_ok")
       /\ Before(p, "create_ok", "migrate_start")
       /\ Exited(p) => exitCode[p] = (IF Has(p, "seed_fail") THEN 1 ELSE 0)
       /\ Has(p, "seed_fail") => Trim(answer[p]) \in {<<"y">>, <<"Y">>}

C6_Witness ==
  \E p \in Procs :
    /\ flow[p] = "init" /\ Has(p, "check_missing") /\ Has(p, "create_ok")
    /\ Has(p, "migrate_ok") /\ Exited(p) /\ exitCode[p] = 0

FatalEvents ==
  {"probe_fail", "check_error", "create_fault", "create_dup", "migrate_fail"}

\* C7: a failed probe, EnsureDatabase or migration ends the run with exit
\* code 1, and nothing but the failure report follows it, in the
\* initialization flow and in the setup wizard
C7_StageFailureTerminal ==
  \A p \in Bootstraps :
    \A e \in FatalEvents :
      Has(p, e) =>
        /\ Exited(p) /\ exitCode[p] = 1
        /\ \A i \in DOMAIN log[p] : i > Idx(p, e) => log[p][i] = "failed"

C7_Witness ==
  \E p, q \in Procs :
    /\ flow[p] = "init" /\ Has(p, "migrate_fail")
    /\ flow[q] = "setup" /\ Has(q, "migrate_fail")

\* the answer, as askQuestion returns it, is y in either letter case
IsYes(a) == Trim(a) \in {<<"y">>, <<"Y">>}

\* C8: in the initialization flow the seed runs exactly when the operator
\* answers y in either letter case; a confirmed seed that fails ends the run
\* with exit code 1, and a declined seed leads to completion with exit code
\* 0 and no seed subprocess
C8_SeedPolicyInit ==
  \A p \in Procs :
    flow[p] = "init" =>
      /\ Has(p, "seed_start") => (Has(p, "ask_seed") /\ IsYes(answer[p]))
      /\ pc[p] = "seed" => IsYes(answer[p])
      /\ (Has(p, "ask_seed") /\ IsYes(answer[p])) =>
           (pc[p] = "seed" \/ Has(p, "seed_start"))
      /\ Has(p, "seed_fail") =>
           (Exited(p) /\ exitCode[p] = 1 /\ ~Has(p, "completed"))
      /\ (Has(p, "ask_seed") /\ ~IsYes(answer[p])) =>
           /\ ~Has(p, "seed_start")
           /\ Has(p, "completed")
           /\ pc[p] \in {"finally", "exited"}
           /\ Exited(p) => exitCode[p] = 0

C8_Witness ==
  \E p, q \in Procs :
    /\ flow[p] = "init" /\ answer[p] = <<"Y">> /\ Has(p, "seed_fail")
    /\ flow[q] = "init" /\ Has(q, "ask_seed") /\ answer[q] = <<>> /\ Exited(q)

\* C9: in the setup wizard the seed is attempted after successful
\* migrations without a question to the operator, and its failure is only
\* warned about: the run completes with exit code 0
C9_SeedPolicySetup ==
  \A p \in Procs :
    flow[p] = "setup" =>
      /\ ~Has(p, "ask_seed")
      /\ Has(p, "migrate_ok") => (pc[p] = "seed" \/ Has(p, "seed_start"))
      /\ Has(p, "seed_fail") =>
           /\ Has(p, "seed_warned") /\ Has(p, "completed")
           /\ Exited(p) /\ exitCode[p] = 0

C9_Witness ==
  \E p \in Procs :
    flow[p] = "setup" /\ Has(p, "seed_fail") /\ exitCode[p] = 0

--------------------------------------------------------------------------
(* Properties of the environment manager *)

\* C10: no menu round other than s writes the configuration file: while no
\* save has been made, and after a session that ends with q, the file on
\* disk is what it was before the session started
C10_DiscardLeavesFile ==
  /\ saves = 0 => envFile = file0
  /\ lastChoice # <<"s">> => (envFile = file0 /\ saves = 0)
  /\ (mpc = "exited" /\ lastChoice = <<"q">>) => envFile = file0

C10_Witness ==
  /\ mpc = "exited" /\ lastChoice = <<"q">>
  /\ file0.exists
  /\ steps = MaxMenuSteps
  /\ EnvHas(env, <<"P">>) /\ EnvHas(ParseEnvFile(file0.content), <<"P">>)
  /\ EnvGet(env, <<"P">>) # EnvGet(ParseEnvFile(file0.content), <<"P">>)
  /\ EnvHas(env, <<"N">>)

\* the lines of a file that are not empty
FileLines(file) == SelectSeq(Split(file.content, "\n"), LAMBDA l : l # <<>>)

\* the line KEY=VALUE of each entry of a map, in the order of the map
EntryLines(e) == [i \in DOMAIN e |-> e[i].key \o <<"=">> \o e[i].value]

\* the session ended with s and the write of saveEnv went through
SavedAndExited ==
  /\ mpc = "exited" /\ lastChoice = <<"s">>
  /\ out[1].level = "success"

\* C11: a session that ends with s has called saveEnv exactly once, and no
\* session calls it more than once; when the write went through, the file
\* holds one KEY=VALUE line per entry of the map as the session left it, in
\* the order of the map, and nothing else but the final line break
C11_SaveOnExit ==
  /\ saves <= 1
  /\ (mpc = "exited" /\ lastChoice = <<"s">>) => saves = 1
  /\ saves = 1 => (mpc = "exited" /\ lastChoice = <<"s">>)
  /\ SavedAndExited =>
       /\ envFile.exists
       /\ FileLines(envFile) = EntryLines(env)
       /\ envFile.content = StringifyEnv(env)

C11_Witness ==
  /\ SavedAndExited
  /\ steps = MaxMenuSteps
  /\ Len(env) >= 3
  /\ file0.exists /\ envFile # file0
  /\ EnvHas(env, <<"N">>) /\ ~EnvHas(env, <<"P">>)

\* a key that a line of the file can carry: not empty, no line break, no
\* separator, no space at either end, and not the mark of a comment
ValidKey(k) ==
  /\ k # <<>> /\ Trim(k) = k
  /\ ~Includes(k, <<"=">>) /\ ~Includes(k, <<"\n">>)
  /\ Head(k) # "#"

\* a value that a line of the file can carry: no line break and no space at
\* either end; it may be empty and may hold the separator
ValidValue(v) == Trim(v) = v /\ ~Includes(v, <<"\n">>)

ValidMap(e) == \A i \in DOMAIN e : ValidKey(e[i].key) /\ ValidValue(e[i].value)

\* C12: for every map of valid keys and values that a session holds, saving
\* it and loading the saved file gives the same map: the same keys with the
\* same values in the same order
C12_RoundTrip ==
  (mpc # "start" /\ ValidMap(env)) =>
    /\ LoadEnv(SaveEnv(env, TRUE), TRUE) = env
    /\ SavedAndExited => ParseEnvFile(envFile.content) = env

C12_Witness ==
  /\ SavedAndExited /\ ValidMap(env)
  /\ ParseEnvFile(envFile.content) = env
  /\ Len(env) >= 3
  /\ steps = MaxMenuSteps
  /\ \E i \in DOMAIN env : Includes(env[i].value, <<"=">>)
  /\ \E i \in DOMAIN env : env[i].value = <<>>
  /\ envFile # file0

\* the lines of a file that are KEY=VALUE lines: not blank, not a comment,
\* and with a separator
ValidLines(content) ==
  SelectSeq(Split(content, "\n"),
            LAMBDA l : /\ Trim(l) # <<>>
                       /\ Head(Trim(l)) # "#"
                       /\ Includes(l, <<"=">>))

\* the session has just loaded its file, and the read went through
JustLoaded == mpc = "menu" /\ steps = 0 /\ file0.exists /\ out = <<>>

\* C13: the map loaded from a file holds exactly the entries of the file's
\* KEY=VALUE lines: a line that is not blank, is not a comment and has no
\* '=' is dropped and gives the map no key
C13_NoSeparatorLineDropped ==
  JustLoaded => env = ParseLines(ValidLines(file0.content), <<>>)

RequiredKeys == {Required[i] : i \in DOMAIN Required}

\* the required keys that are absent from the map or have the empty value
AbsentOrEmpty(e) ==
  {k \in RequiredKeys : ~EnvHas(e, k) \/ EnvGet(e, k) = <<>>}

\* the keys that the output of validateConfig lists
ReportedMissing(o) ==
  {SubSeq(o[i].text, 5, Len(o[i].text)) : i \in {j \in DOMAIN o : j > 1}}

\* C14: for every map a session holds, validateConfig finds missing exactly
\* the required keys that are absent or have the empty value, each once,
\* and answers valid if and only if there is none; a Validating round
\* reports success in that case and lists exactly those keys otherwise
C14_ValidateComplete ==
  mpc # "start" =>
    /\ {Missing(env)[i] : i \in DOMAIN Missing(env)} = AbsentOrEmpty(env)
    /\ Len(Missing(env)) = Cardinality(AbsentOrEmpty(env))
    /\ ValidateConfig(env).valid <=> (AbsentOrEmpty(env) = {})
    /\ lastChoice = <<"5">> =>
         /\ (out[1].level = "success") <=> (AbsentOrEmpty(env) = {})
         /\ (out[1].level = "error") <=> (AbsentOrEmpty(env) # {})
         /\ out[1].level = "error" =>
              /\ ReportedMissing(out) = AbsentOrEmpty(env)
              /\ Len(out) - 1 = Cardinality(AbsentOrEmpty(env))

C14_Witness ==
  /\ lastChoice = <<"5">> /\ out[1].level = "error"
  /\ \E k \in AbsentOrEmpty(env) : ~EnvHas(env, k)
  /\ \E k \in AbsentOrEmpty(env) : EnvHas(env, k)
  /\ EnvHas(env, <<"D", "B", "_", "H", "O", "S", "T">>)
  /\ <<"D", "B", "_", "H", "O", "S", "T">> \notin AbsentOrEmpty(env)

\* the step is a round of Importing
ImportRound == lastChoice' = <<"4">> /\ steps' = steps + 1

\* the round read the template
ImportRead == out'[1].level \in {"success", "info"}

Keys(e) == {e[i].key : i \in DOMAIN e}

\* C15: a round of Importing leaves every key of the map with the value it
\* had, an empty value included; when the template is read, the map gains
\* exactly the template's keys that it did not have, each with the
\* template's value, and the round reports how many it added; when the
\* template is not there or is not read, the map is as it was
C15_ImportFrame ==
  [][ImportRound =>
       LET t == ParseEnvFile(exampleFile.content)
           added == Keys(t) \ Keys(env)
       IN /\ \A k \in Keys(env) :
               EnvHas(env', k) /\ EnvGet(env', k) = EnvGet(env, k)
          /\ ImportRead =>
               /\ Keys(env') = Keys(env) \cup Keys(t)
               /\ \A k \in added : EnvGet(env', k) = EnvGet(t, k)
               /\ Len(env') = Len(env) + Cardinality(added)
               /\ IF added = {}
                  THEN out' = <<Msg("info", "No new variables to import",
                                    <<>>)>>
                  ELSE out' = <<Msg("success", "Imported variables",
                                    ToDecimal(Cardinality(added)))>>
          /\ ~ImportRead => env' = env]_vars

C15_Witness ==
  /\ lastChoice = <<"4">>
  /\ out = <<Msg("success", "Imported variables", <<"2">>)>>
  /\ EnvHas(env, <<"B">>) /\ EnvGet(env, <<"B">>) = <<>>
  /\ EnvHas(env, <<"P">>) /\ EnvGet(env, <<"P">>) = <<"w">>
  /\ EnvHas(env, <<"N">>) /\ EnvHas(env, <<"K", "E", "Y">>)

\* the keys of a map that have the empty string as their value
EmptyKeys(e) == {k \in Keys(e) : EnvGet(e, k) = <<>>}

\* what the operator typed is empty once trimmed, as askQuestion trims it
TypedEmpty(t) == Trim(t) = <<>>

\* C16, as stated: in every map a session holds, an edit with an empty key
\* or an empty value typed ends with a warning and leaves the map as it
\* was, and no edit gives a key the empty string as its value
C16_Original ==
  mpc = "menu" =>
    \A k \in TypedKeys, v \in TypedValues :
      LET r == UpdateVariable(env, k, v)
      IN /\ (TypedEmpty(k) \/ TypedEmpty(v)) =>
              (r.env = env /\ r.out[1].level = "warn")
         /\ EmptyKeys(r.env) \subseteq EmptyKeys(env)

\* C16, amended: an edit with an empty key typed ends with the warning
\* about the name; an edit with an empty value typed ends with the warning
\* about the value when the key is absent or has the empty value, and keeps
\* the current value with the message of an update when the key has a
\* non-empty value; in all these cases the map is as it was, an edit with
\* both typed stores the trimmed value, and no edit gives a key the empty
\* string as its value
C16_EditNeverEmpties ==
  mpc = "menu" =>
    /\ \A k \in TypedKeys, v \in TypedValues :
         LET r == UpdateVariable(env, k, v)
         IN /\ TypedEmpty(k) =>
                 /\ r.env = env
                 /\ r.out = <<Msg("warn", "Variable name cannot be empty",
                                   <<>>)>>
            /\ (~TypedEmpty(k) /\ TypedEmpty(v)) =>
                 /\ r.env = env
                 /\ r.out = IF Truthy(env, Trim(k))
                            THEN <<Msg("success", "Updated", Trim(k))>>
                            ELSE <<Msg("warn", "Value cannot be empty",
                                       <<>>)>>
            /\ (~TypedEmpty(k) /\ ~TypedEmpty(v)) =>
                 /\ EnvGet(r.env, Trim(k)) = Trim(v)
                 /\ r.out = <<Msg("success", "Updated", Trim(k))>>
            /\ EmptyKeys(r.env) \subseteq EmptyKeys(env)
    /\ (lastChoice = <<"2">> /\ out[1].level = "success") =>
         Truthy(env, out[1].text)

C16_Witness ==
  /\ lastChoice = <<"2">>
  /\ out = <<Msg("success", "Updated", <<"K", "E", "Y">>)>>
  /\ EnvGet(env, <<"K", "E", "Y">>) = <<"s", "=", "t">>
  /\ steps = 1 /\ env = ParseEnvFile(file0.content)

\* the upper-cased name holds PASSWORD, SECRET, KEY or TOKEN
MatchesPattern(k) ==
  \E w \in {<<"P", "A", "S", "S", "W", "O", "R", "D">>,
             <<"S", "E", "C", "R", "E", "T">>,
             <<"K", "E", "Y">>,
             <<"T", "O", "K", "E", "N">>} : Includes(ToUpperCase(k), w)

\* the map with every value of a key of the pattern replaced by v
WithSecrets(e, v) ==
  [i \in DOMAIN e |-> IF MatchesPattern(e[i].key)
                       THEN [key |-> e[i].key, value |-> v]
                       ELSE e[i]]

SecretValues == {<<>>, <<"z">>, <<"*", "*">>, <<"s", "=", "t">>}

ShownLine(k, v) == <<" ", " ">> \o k \o <<"=">> \o v

\* C17: for every map a session holds, Listing shows ******** in place of
\* the value of each key of the pattern and the value itself for the other
\* keys, so the Listing output is the same whatever the values of the keys
\* of the pattern are; RevealingSensitive shows every value as it is
C17_ListingMasks ==
  mpc = "menu" =>
    /\ \A i \in DOMAIN env :
         /\ ListVariables(env)[i].text =
              ShownLine(env[i].key,
                        IF MatchesPattern(env[i].key)
                        THEN <<"*", "*", "*", "*", "*", "*", "*", "*">>
                        ELSE env[i].value)
         /\ ShowSensitiveValues(env)[i].text =
              ShownLine(env[i].key, env[i].value)
    /\ \A v \in SecretValues :
         ListVariables(WithSecrets(env, v)) = ListVariables(env)
    /\ (lastChoice = <<"1">> /\ Len(env) > 0) =>
         /\ Len(out) = Len(env)
         /\ \A i \in DOMAIN env :
              MatchesPattern(env[i].key) =>
                out[i].text = ShownLine(env[i].key,
                                        <<"*", "*", "*", "*", "*", "*", "*", "*">>)
    /\ (lastChoice = <<"6">> /\ Len(env) > 0) =>
         /\ Len(out) = Len(env)
         /\ \A i \in DOMAIN env :
              out[i].text = ShownLine(env[i].key, env[i].value)

C17_Witness ==
  /\ lastChoice = <<"1">>
  /\ \E i, j, h \in DOMAIN env :
       /\ env[i].key = <<"a", "K", "e", "y">> /\ env[i].value = <<"z">>
       /\ out[i].text = <<" ", " ", "a", "K", "e", "y", "=", "*", "*", "*", "*", "*", "*", "*", "*">>
       /\ env[j].key = <<"K", "E", "Y">> /\ env[j].value # <<>>
       /\ out[j].text = <<" ", " ", "K", "E", "Y", "=", "*", "*", "*", "*", "*", "*", "*", "*">>
       /\ env[h].key = <<"1">>
       /\ out[h].text = <<" ", " ", "1", "=", "v">>

--------------------------------------------------------------------------
(* Properties of the configuration resolver *)

\* the parts of the well-formed values of DATABASE_URL, read off by hand
UrlParts ==
  {[text |-> <<"p", ":", "/", "/", "u", ":", "w", "@", "h", ":", "7", "/", "d">>, user |-> <<"u">>, password |-> <<"w">>,
    host |-> <<"h">>, port |-> JsString(<<"7">>), database |-> <<"d">>],
   [text |-> <<"p", ":", "/", "/", "u", "@", "h", "/", "d">>, user |-> <<"u">>, password |-> <<>>,
    host |-> <<"h">>, port |-> JsNumber(5432), database |-> <<"d">>],
   [text |-> <<"p", ":", "/", "/", "h", ":", "7", "/", "/", "d">>, user |-> <<>>, password |-> <<>>,
    host |-> <<"h">>, port |-> JsString(<<"7">>), database |-> <<"/", "d">>]}

\* DATABASE_URL is present: set, and not to the empty text
UrlPresent == cfgEnv.DATABASE_URL.set /\ cfgEnv.DATABASE_URL.text # <<>>

\* every field but the port comes from the discrete variables
DiscreteButPort ==
  /\ descriptor.user = JsVar(cfgEnv.DB_USER)
  /\ descriptor.password = JsVar(cfgEnv.DB_PASSWORD)
  /\ descriptor.host = JsVar(cfgEnv.DB_HOST)
  /\ descriptor.database = JsVar(cfgEnv.DB_NAME)

\* every field comes from the URL, the port 5432 when the URL has none
AllFromUrl ==
  \E u \in UrlParts :
    /\ u.text = cfgEnv.DATABASE_URL.text
    /\ descriptor.user = JsString(u.user)
    /\ descriptor.password = JsString(u.password)
    /\ descriptor.host = JsString(u.host)
    /\ descriptor.port = u.port
    /\ descriptor.database = JsString(u.database)

TlsIffProduction ==
  (descriptor.ssl # "off") <=> (cfgEnv.NODE_ENV = Str(Production))

\* C18, as stated: with DATABASE_URL present every field comes from the
\* URL, whatever the discrete variables are, the port 5432 when the URL
\* gives none; otherwise every field, the port included, is the discrete
\* variable; TLS is required if and only if NODE_ENV is production
C18_Original ==
  cpc = "configured" =>
    /\ UrlPresent => AllFromUrl
    /\ ~UrlPresent => (DiscreteButPort
                         /\ descriptor.port = JsVar(cfgEnv.DB_PORT))
    /\ TlsIffProduction

\* C18, amended: with DATABASE_URL present every field comes from the URL,
\* whatever the discrete variables are, the port 5432 when the URL gives
\* none; otherwise user, password, host and database are the discrete
\* variables and the port is DB_PORT, or 5432 when DB_PORT is not set or is
\* empty; TLS is required if and only if NODE_ENV is production; the
\* process ends with exit code 1 instead when DATABASE_URL is present and
\* is no URL
C18_OneSource ==
  /\ cpc = "configured" =>
       /\ UrlPresent => AllFromUrl
       /\ ~UrlPresent =>
            /\ DiscreteButPort
            /\ descriptor.port =
                 IF cfgEnv.DB_PORT.set /\ cfgEnv.DB_PORT.text # <<>>
                 THEN JsString(cfgEnv.DB_PORT.text)
                 ELSE JsNumber(5432)
       /\ TlsIffProduction
  /\ cpc = "exited" =>
       /\ UrlPresent /\ cfgExit = 1
       /\ \A u \in UrlParts : u.text # cfgEnv.DATABASE_URL.text
  /\ (cpc \in {"configured", "exited"} /\ UrlPresent
        /\ \E u \in UrlParts : u.text = cfgEnv.DATABASE_URL.text)
       => cpc = "configured"

C18_Witness ==
  /\ cpc = "configured"
  /\ cfgEnv.DATABASE_URL = Str(<<"p", ":", "/", "/", "u", "@", "h", "/", "d">>)
  /\ cfgEnv.DB_HOST.set /\ cfgEnv.DB_PORT.set /\ cfgEnv.DB_USER.set
  /\ cfgEnv.DB_NAME.set /\ cfgEnv.DB_PASSWORD.set
  /\ cfgEnv.NODE_ENV = Str(Production)
  /\ descriptor.host = JsString(<<"h">>)
  /\ descriptor.port = JsNumber(5432)
  /\ descriptor.ssl = "noVerify"

--------------------------------------------------------------------------
(* Further properties of the bootstrap flows *)

\* C19: a process that has ended has exit code 0 or 1: no path ends a
\* process with another code
C19_ExitCodeZeroOrOne ==
  \A p \in Procs : Exited(p) => exitCode[p] \in {0, 1}

CheckEvents == {"check_present", "check_missing", "check_error"}

CreateEvents == {"create_ok", "create_dup", "create_fault"}

\* C20, as stated: a process issues a catalog check or a create statement
\* only after its probe reported the database missing, under the discrete
\* configuration; after a probe that found the database there it issues
\* neither
C20_Original ==
  \A p \in Procs :
    \A e \in CheckEvents \cup CreateEvents :
      Has(p, e) => (Before(p, "probe_missing", e) /\ ~urlForm[p])

\* C20, amended: the application issues a create statement only after its
\* probe reported the database missing, under the discrete configuration,
\* and issues no catalog check; after a probe that found the database there
\* it issues nothing. The initialization script's probe reports only that
\* the server is reachable: after it the script always issues the catalog
\* check, whether the database is there or not, and issues the create
\* statement only after that check found the database missing. The setup
\* wizard issues neither
C20_EnsureEntry ==
  \A p \in Procs :
    /\ flow[p] = "app" =>
         /\ \A e \in CheckEvents : ~Has(p, e)
         /\ \A e \in CreateEvents :
              Has(p, e) => (Before(p, "probe_missing", e) /\ ~urlForm[p])
         /\ Has(p, "probe_ok") => \A e \in CreateEvents : ~Has(p, e)
    /\ flow[p] = "init" =>
         /\ \A e \in CheckEvents \cup CreateEvents :
              Has(p, e) => Idx(p, "probe_ok") = 1
         /\ (Has(p, "probe_ok") /\ pc[p] # "ensure_check") =>
              \E e \in CheckEvents : Idx(p, e) = 2
         /\ \A e \in CreateEvents :
              Has(p, e) => Before(p, "check_missing", e)
         /\ ~Has(p, "probe_missing")
    /\ flow[p] = "setup" =>
         \A e \in CheckEvents \cup CreateEvents : ~Has(p, e)

C20_Witness ==
  \E p, q \in Procs :
    /\ dbInit
    /\ flow[p] = "init" /\ Has(p, "probe_ok") /\ Has(p, "check_present")
    /\ flow[q] = "app" /\ Has(q, "probe_ok") /\ pc[q] = "serving"

\* C21: a bootstrap process has at most one administrative handle, and the
\* handle is closed once the stage that uses it, the catalog check and the
\* create statement, is over: it is not open when the migrations
\* subprocess or the seed subprocess is started, nor while the operator is
\* asked about the seed between the two
C21_HandleClosedAfterEnsure ==
  \A p \in Procs :
    (flow[p] = "init" /\ pc[p] \in {"migrate", "ask_seed", "seed"})
      => handle[p] # "open"

--------------------------------------------------------------------------
(* Further properties of the environment manager *)

\* the choices that have an option: 1 to 6, s and q
ValidChoices ==
  {<<"1">>, <<"2">>, <<"3">>, <<"4">>, <<"5">>, <<"6">>, <<"s">>, <<"q">>}

\* the step is a menu round whose input, once trimmed, is no valid choice
InvalidRound == steps' = steps + 1 /\ lastChoice' \notin ValidChoices

\* C22: a menu round whose input is not 1 to 6, s or q gives the warning,
\* leaves the map and the file as they were, writes nothing, and leaves the
\* session at the menu; a session ends only on s or q
C22_InvalidInputLoops ==
  /\ [][InvalidRound =>
          /\ mpc = "menu" /\ mpc' = "menu"
          /\ env' = env /\ envFile' = envFile /\ saves' = saves
          /\ exampleFile' = exampleFile
          /\ out' = <<Msg("warn", "Invalid choice. Please try again.",
                           <<>>)>>]_vars
  /\ [](mpc = "exited" => lastChoice \in {<<"s">>, <<"q">>})
  /\ []((mpc = "menu" /\ steps > 0) => lastChoice \notin {<<"s">>, <<"q">>})

C22_Witness ==
  /\ mpc = "menu" /\ lastChoice = <<"S">>
  /\ out = <<Msg("warn", "Invalid choice. Please try again.", <<>>)>>
  /\ steps >= 2
  /\ file0.exists /\ envFile = file0
  /\ Len(env) >= 2 /\ env # ParseEnvFile(file0.content)

--------------------------------------------------------------------------
(* Properties of the create statement *)

NameChars ==
  {LowerLetters[i] : i \in DOMAIN LowerLetters}
    \cup {UpperLetters[i] : i \in DOMAIN UpperLetters}
    \cup {DigitChars[i] : i \in DOMAIN DigitChars} \cup {"_"}

\* the name is made of letters, digits and underscores only
AllowListed(name) ==
  Len(name) > 0 /\ \A i \in DOMAIN name : name[i] \in NameChars

\* C23: every name that a create statement was sent for is made of
\* letters, digits and underscores only
C23_CreateOnlyAllowListed ==
  \A n \in issued : AllowListed(n)

--------------------------------------------------------------------------
(* Properties of the setup wizard's .env file *)

\* the step is p's check for the .env file, with what follows from it
EnvStep(p) == flow[p] = "setup" /\ pc[p] = "env" /\ pc'[p] # "env"

LastLogged(p) == log'[p][Len(log'[p])]

\* C24: when the wizard finds a .env file and the answer to the overwrite
\* question is anything but y or Y, it skips the configuration and the file
\* stays as it is; when the file is absent or the answer is y or Y it
\* prompts for the variables and writes the file; no other step of a run
\* writes the file, so after a skip it is unchanged for the rest of the run
C24_OverwriteOnlyWhenConfirmed ==
  /\ [][\A p \in Procs :
          /\ EnvStep(p) =>
               IF dotEnv # "absent" /\ answer'[p] \notin {<<"y">>, <<"Y">>}
               THEN dotEnv' = dotEnv /\ LastLogged(p) = "env_skip"
               ELSE dotEnv' = "new" /\ LastLogged(p) = "env_written"
          /\ (\A q \in Procs : ~EnvStep(q)) => dotEnv' = dotEnv]_vars
  /\ []((\A p \in Procs : ~Has(p, "env_written")) => dotEnv # "new")
  /\ [](\A p \in Procs :
          Has(p, "env_skip") => answer[p] \notin {<<"y">>, <<"Y">>})

C24_Witness ==
  \E p \in Procs :
    /\ flow[p] = "setup" /\ Has(p, "env_skip")
    /\ answer[p] = <<"y", " ">>
    /\ dotEnv = "old"
    /\ Exited(p) /\ Has(p, "completed")

====
